---- MODULE Spec2Model ----
(***************************************************************************)
(* Model of the composite-rating report tools of plazar/ratings:           *)
(*   composite_rating_report.py  (prep_composite_rating, get_tables,       *)
(*                                build_query, produce_report,             *)
(*                                format_rating)                           *)
(*   upload_rating.py            (UploadRating, SharePfdRating)            *)
(* Python strings are sequences of one-character strings.                  *)
(***************************************************************************)
EXTENDS Integers, Sequences, FiniteSets, TLC

VARIABLES
    pc,         \* position of the modelled script / caller
    string,     \* rating_string, the composite rating as typed
    prepped,    \* prep_composite_rating(string)
    reprepped,  \* prep_composite_rating(prepped)
    where_clause, \* options.where_clause, the filter as typed
    where,      \* prep_composite_rating(where_clause)
    no_test,    \* build_query argument
    classifications, \* build_query argument
    query,      \* the text returned by build_query, one entry per "query +="
    issued,     \* produce_report: queries handed to rating_utils.get_data
    results,    \* produce_report: what get_data returned for each of them
    rendered,   \* produce_report: plt.hist calls, in call order
    rating_type,\* a row of rating_types as held by the caller
    fetched,    \* the same row as it was fetched from the store
    formatted,  \* what format_rating returned last
    calls       \* rate_candidate invocations with their effects and outcome

vars == <<pc, string, prepped, reprepped, where_clause, where, no_test,
          classifications, query, issued, results, rendered, rating_type,
          fetched, formatted, calls>>

reportVars == <<issued, results, rendered>>
formatVars == <<rating_type, fetched, formatted>>

None == <<"None">>

-----------------------------------------------------------------------------
(* Bounds *)

MaxLen == 6

-----------------------------------------------------------------------------
(* Characters and string helpers *)

Digits == {"0", "1", "2", "3", "4", "5", "6", "7", "8", "9"}

Alphabet == {"c", "h", "r", "{", "}", "1", "a"}

Strings(n) == UNION {[1..m -> Alphabet] : m \in 0..n}

\* s[i..] starts with the literal p
StartsAt(s, i, p) ==
    /\ i + Len(p) - 1 <= Len(s)
    /\ \A j \in 1..Len(p) : s[i + j - 1] = p[j]

\* Python's "p in s"
Contains(s, p) == \E i \in 1..(Len(s) - Len(p) + 1) : StartsAt(s, i, p)

\* index of the first "}" at or after i, 0 when there is none: where the
\* regular expression [^}]*\} ends
RECURSIVE CloseAt(_, _)
CloseAt(s, i) ==
    IF i > Len(s) THEN 0
    ELSE IF s[i] = "}" THEN i
    ELSE CloseAt(s, i + 1)

\* index of the first non-digit at or after i (Len(s)+1 when the digits run
\* to the end): where the greedy [0-9]* ends
RECURSIVE DigitsEnd(_, _)
DigitsEnd(s, i) ==
    IF i > Len(s) THEN i
    ELSE IF s[i] \in Digits THEN DigitsEnd(s, i + 1)
    ELSE i

pdm_candidates_dot == <<"p","d","m","_","c","a","n","d","i","d","a","t","e","s",".">>
headers_dot == <<"h","e","a","d","e","r","s",".">>
rat == <<"r","a","t">>
dot_value == <<".","v","a","l","u","e">>

-----------------------------------------------------------------------------
(* prep_composite_rating *)

\* re.sub(r"<tag>\{([^}]*)\}", r"<repl>\1", s): leftmost, non-overlapping
RECURSIVE SubField(_, _, _, _)
SubField(tag, repl, s, i) ==
    IF i > Len(s) THEN <<>>
    ELSE LET k == CloseAt(s, i + 2) IN
         IF /\ s[i] = tag
            /\ i + 1 <= Len(s)
            /\ s[i + 1] = "{"
            /\ k # 0
         THEN repl \o SubSeq(s, i + 2, k - 1) \o SubField(tag, repl, s, k + 1)
         ELSE <<s[i]>> \o SubField(tag, repl, s, i + 1)

\* re.sub(r"r\{([0-9]*)\}", r"rat\1.value", s)
RECURSIVE SubRating(_, _)
SubRating(s, i) ==
    IF i > Len(s) THEN <<>>
    ELSE LET k == DigitsEnd(s, i + 2) IN
         IF /\ s[i] = "r"
            /\ i + 1 <= Len(s)
            /\ s[i + 1] = "{"
            /\ k <= Len(s)
            /\ s[k] = "}"
         THEN rat \o SubSeq(s, i + 2, k - 1) \o dot_value \o SubRating(s, k + 1)
         ELSE <<s[i]>> \o SubRating(s, i + 1)

prep_composite_rating(s) ==
    LET s1 == SubField("c", pdm_candidates_dot, s, 1)
        s2 == SubField("h", headers_dot, s1, 1)
    IN  SubRating(s2, 1)

-----------------------------------------------------------------------------
(* The rewriter applied to a typed string, then to its own output *)

InitRewrite ==
    /\ pc = "typed"
    /\ string \in Strings(MaxLen)
    /\ prepped = None
    /\ reprepped = None
    /\ where_clause = None
    /\ where = None
    /\ no_test = FALSE
    /\ classifications = <<>>
    /\ query = <<>>
    /\ issued = <<>>
    /\ results = <<>>
    /\ rendered = <<>>
    /\ rating_type = None
    /\ fetched = None
    /\ formatted = None
    /\ calls = <<>>

Prep ==
    /\ pc = "typed"
    /\ prepped' = prep_composite_rating(string)
    /\ pc' = "prepped"
    /\ UNCHANGED <<string, reprepped, where_clause, where, no_test,
                   classifications, query, reportVars, formatVars, calls>>

PrepAgain ==
    /\ pc = "prepped"
    /\ reprepped' = prep_composite_rating(prepped)
    /\ pc' = "reprepped"
    /\ UNCHANGED <<string, prepped, where_clause, where, no_test,
                   classifications, query, reportVars, formatVars, calls>>

NextRewrite == Prep \/ PrepAgain

SpecRewrite == InitRewrite /\ [][NextRewrite]_vars

-----------------------------------------------------------------------------
(* Reference shapes, stated on the text itself *)

\* s[i..k] is tag{body} with a brace-free body (digits only for r)
IsReference(s, i, k) ==
    /\ i + 2 <= k
    /\ k <= Len(s)
    /\ s[i] \in {"c", "h", "r"}
    /\ s[i + 1] = "{"
    /\ s[k] = "}"
    /\ \A j \in (i + 2)..(k - 1) : s[j] \notin {"{", "}"}
    /\ s[i] = "r" => \A j \in (i + 2)..(k - 1) : s[j] \in Digits

HasReference(s) == \E i \in 1..Len(s) : \E k \in 1..Len(s) : IsReference(s, i, k)

Canonical(tag, body) ==
    CASE tag = "c" -> pdm_candidates_dot \o body
      [] tag = "h" -> headers_dot \o body
      [] tag = "r" -> rat \o body \o dot_value

\* s[i..k] is c{f} or h{f} with f running to the next "}", or r{n} with n
\* a run of digits
IsFieldRef(s, i, k) ==
    /\ i + 2 <= k
    /\ k <= Len(s)
    /\ s[i] \in {"c", "h", "r"}
    /\ s[i + 1] = "{"
    /\ s[k] = "}"
    /\ \A j \in (i + 2)..(k - 1) : s[j] # "}"
    /\ s[i] = "r" => \A j \in (i + 2)..(k - 1) : s[j] \in Digits

\* every reference replaced by its canonical form, every other character kept
RECURSIVE Replaced(_, _)
Replaced(s, i) ==
    IF i > Len(s) THEN <<>>
    ELSE IF \E k \in 1..Len(s) : IsFieldRef(s, i, k)
         THEN LET k == CHOOSE k \in 1..Len(s) : IsFieldRef(s, i, k)
              IN  Canonical(s[i], SubSeq(s, i + 2, k - 1)) \o Replaced(s, k + 1)
         ELSE <<s[i]>> \o Replaced(s, i + 1)

\* C1: the rewriter is idempotent: rewriting its own output changes nothing.
C1_Idempotent == pc = "reprepped" => reprepped = prepped

\* C2: the rewriter is total: its output holds no c{...}, h{...} or r{digits}.
C2_Total == pc \in {"prepped", "reprepped"} => ~HasReference(prepped)

\* C3: every reference is replaced by its one canonical form and every other
\* character of the input is kept, in order.
C3_ReplacesExactly == pc \in {"prepped", "reprepped"} => prepped = Replaced(string, 1)

-----------------------------------------------------------------------------
(* get_tables *)

\* characters of table names in the order Python compares them
CharOrder == <<"0","1","2","3","4","5","6","7","8","9","_",
               "a","b","c","d","e","f","g","h","i","j","k","l","m",
               "n","o","p","q","r","s","t","u","v","w","x","y","z">>

Ord(ch) == CHOOSE i \in 1..Len(CharOrder) : CharOrder[i] = ch

\* Python's a < b on strings
RECURSIVE StrLess(_, _)
StrLess(a, b) ==
    IF b = <<>> THEN FALSE
    ELSE IF a = <<>> THEN TRUE
    ELSE IF a[1] = b[1] THEN StrLess(Tail(a), Tail(b))
    ELSE Ord(a[1]) < Ord(b[1])

\* sorted(list(S)) for a set S of strings
RECURSIVE Sorted(_)
Sorted(S) ==
    IF S = {} THEN <<>>
    ELSE LET m == CHOOSE x \in S : \A y \in S \ {x} : StrLess(x, y)
         IN  <<m>> \o Sorted(S \ {m})

Range(seq) == {seq[i] : i \in 1..Len(seq)}

\* list.sort() after list.append(x) on a sorted list
RECURSIVE InsertSorted(_, _)
InsertSorted(x, seq) ==
    IF seq = <<>> THEN <<x>>
    ELSE IF StrLess(x, seq[1]) THEN <<x>> \o seq
    ELSE <<seq[1]>> \o InsertSorted(x, Tail(seq))

\* re.findall(r'(rat[0-9]*).', s): group 1 of every leftmost non-overlapping
\* match; the unescaped "." takes any one character but a newline, and when
\* the digits run up to a newline or the end of the string the last digit is
\* given up to it
RECURSIVE FindRat(_, _)
FindRat(s, i) ==
    IF i > Len(s) THEN <<>>
    ELSE IF StartsAt(s, i, rat)
         THEN LET k == DigitsEnd(s, i + 3) IN
              IF k <= Len(s) /\ s[k] # "\n"
              THEN <<SubSeq(s, i, k - 1)>> \o FindRat(s, k + 1)
              ELSE IF k - 1 >= i + 3
                   THEN <<SubSeq(s, i, k - 2)>> \o FindRat(s, k)
                   ELSE FindRat(s, i + 1)
         ELSE FindRat(s, i + 1)

pdm_candidates == <<"p","d","m","_","c","a","n","d","i","d","a","t","e","s">>
headers == <<"h","e","a","d","e","r","s">>
pdm_classifications == <<"p","d","m","_","c","l","a","s","s","i","f","i","c","a","t","i","o","n","s">>

get_tables(prepped_string) ==
    LET t1 == IF Contains(prepped_string, pdm_candidates_dot)
              THEN {pdm_candidates} ELSE {}
        t2 == IF Contains(prepped_string, headers_dot)
              THEN {headers} ELSE {}
        t3 == Range(FindRat(prepped_string, 1))
    IN  Sorted(t1 \cup t2 \cup t3)

-----------------------------------------------------------------------------
(* build_query *)

\* one "query += text % args" statement
Frag(text, args) == [text |-> text, args |-> args]

\* rating_utils.get_default_pdm_class_type_id(), a value of the store
pdm_class_type_id == 1

\* JoinClause with the classification branch never taken
JoinClause_NoClassBranch(table) ==
    IF table = headers
    THEN << Frag(" LEFT JOIN headers ON ", <<>>),
            Frag(" headers.header_id = pdm_candidates.header_id ", <<>>) >>
    ELSE IF StartsAt(table, 1, rat)
    THEN << Frag(" LEFT JOIN ratings AS %s ON ", <<table>>),
            Frag(" %s.pdm_cand_id = pdm_candidates.pdm_cand_id AND ", <<table>>),
            Frag(" %s.rating_id = %s ", <<table, SubSeq(table, 4, Len(table))>>) >>
    ELSE <<>>

JoinClause(table) ==
    IF table = headers
    THEN << Frag(" LEFT JOIN headers ON ", <<>>),
            Frag(" headers.header_id = pdm_candidates.header_id ", <<>>) >>
    ELSE IF table = pdm_classifications
    THEN << Frag(" LEFT JOIN pdm_classifications ON ", <<>>),
            Frag(" pdm_candidates.pdm_cand_id = pdm_classifications.pdm_cand_id AND", <<>>),
            Frag(" pdm_classifications.pdm_class_type_id = %d AND ", <<pdm_class_type_id>>),
            Frag(" pdm_classifications.who = 'PL' ", <<>>) >>
    ELSE IF StartsAt(table, 1, rat)
    THEN << Frag(" LEFT JOIN ratings AS %s ON ", <<table>>),
            Frag(" %s.pdm_cand_id = pdm_candidates.pdm_cand_id AND ", <<table>>),
            Frag(" %s.rating_id = %s ", <<table, SubSeq(table, 4, Len(table))>>) >>
    ELSE <<>>

RECURSIVE JoinClauses(_)
JoinClauses(tables) ==
    IF tables = <<>> THEN <<>>
    ELSE JoinClause(tables[1]) \o JoinClauses(Tail(tables))

\* QueryTables without the block that adds headers for no_test
QueryTables_NoTestNotForced(prepped_string, wh, nt, cls) ==
    LET tables0 == Sorted(Range(get_tables(wh) \o get_tables(prepped_string)))
    IN  IF Len(cls) > 0 /\ pdm_classifications \notin Range(tables0)
        THEN InsertSorted(pdm_classifications, tables0) ELSE tables0

\* the table list after the two "if ... not in tables: append; sort" blocks
QueryTables(prepped_string, wh, nt, cls) ==
    LET rating_tables == get_tables(prepped_string)
        where_tables == get_tables(wh)
        tables0 == Sorted(Range(where_tables \o rating_tables))
        tables1 == IF nt /\ headers \notin Range(tables0)
                   THEN InsertSorted(headers, tables0) ELSE tables0
    IN  IF Len(cls) > 0 /\ pdm_classifications \notin Range(tables1)
        THEN InsertSorted(pdm_classifications, tables1) ELSE tables1

\* QueryTail with the HAVING clause written before the rank predicate
QueryTail_HavingEarly(wh, nt, cls) ==
    << Frag("WHERE %s ", <<wh>>) >>
    \o (IF nt THEN << Frag(" AND headers.source_name LIKE 'G%' ", <<>>) >> ELSE <<>>)
    \o << Frag(" HAVING composite_rating IS NOT NULL", <<>>) >>
    \o (IF Len(cls) > 0
        THEN << Frag(" AND pdm_classifications.rank IN (%s) ", <<cls>>) >>
        ELSE <<>>)

\* "WHERE ..." and everything after it
QueryTail(wh, nt, cls) ==
    << Frag("WHERE %s ", <<wh>>) >>
    \o (IF nt THEN << Frag(" AND headers.source_name LIKE 'G%' ", <<>>) >> ELSE <<>>)
    \o (IF Len(cls) > 0
        THEN << Frag(" AND pdm_classifications.rank IN (%s) ", <<cls>>) >>
        ELSE <<>>)
    \o << Frag(" HAVING composite_rating IS NOT NULL", <<>>) >>

build_query(prepped_string, wh, nt, cls) ==
    << Frag("SELECT %s AS composite_rating FROM pdm_candidates ", <<prepped_string>>) >>
    \o JoinClauses(QueryTables(prepped_string, wh, nt, cls))
    \o QueryTail(wh, nt, cls)

-----------------------------------------------------------------------------
(* The query builder on typed expressions and filters *)

MaxTerms == 2

\* references a user types: candidate fields (one whose name holds the
\* letters "rat"), a header field, ratings, a rating with no digits
Terms == { <<"c","{","s","n","r","}">>, <<"c","{","r","a","t","e","}">>, <<"h","{","n","c","h","a","n","}">>, <<"r","{","3","}">>, <<"r","{","7","}">>, <<"r","{","1","2","}">>, <<"r","{","}">> }

Times == <<" ", "*", " ">>

RECURSIVE JoinTerms(_)
JoinTerms(ts) ==
    IF Len(ts) = 1 THEN ts[1]
    ELSE ts[1] \o Times \o JoinTerms(Tail(ts))

Expressions == { JoinTerms(ts) : ts \in UNION {[1..n -> Terms] : n \in 1..MaxTerms} }

\* the default where clause "1", or a reference compared with 0
Filters == { <<"1">> } \cup { t \o <<" ", ">", " ", "0">> : t \in Terms }

ClassificationSets == { <<>>, <<4, 5>>, <<6, 7>>, <<1, 2, 3>> }

InitQuery ==
    /\ pc = "typed"
    /\ string \in Expressions
    /\ prepped = None
    /\ reprepped = None
    /\ where_clause \in Filters
    /\ where = None
    /\ no_test \in BOOLEAN
    /\ classifications \in ClassificationSets
    /\ query = <<>>
    /\ issued = <<>>
    /\ results = <<>>
    /\ rendered = <<>>
    /\ rating_type = None
    /\ fetched = None
    /\ formatted = None
    /\ calls = <<>>

\* main(): where_clause = prep_composite_rating(options.where_clause)
PrepWhere ==
    /\ pc = "prepped"
    /\ where' = prep_composite_rating(where_clause)
    /\ pc' = "ready"
    /\ UNCHANGED <<string, prepped, reprepped, where_clause, no_test,
                   classifications, query, reportVars, formatVars, calls>>

BuildQuery ==
    /\ pc = "ready"
    /\ query' = build_query(prepped, where, no_test, classifications)
    /\ pc' = "built"
    /\ UNCHANGED <<string, prepped, reprepped, where_clause, where, no_test,
                   classifications, reportVars, formatVars, calls>>

NextQuery == Prep \/ PrepWhere \/ BuildQuery

SpecQuery == InitQuery /\ [][NextQuery]_vars

-----------------------------------------------------------------------------
(* Properties of the built query *)

\* bodies of the references with the given tag in a typed string
RefBodies(s, tag) ==
    { SubSeq(s, i + 2, k - 1) : <<i, k>> \in
        { ik \in (1..Len(s)) \X (1..Len(s)) :
            IsReference(s, ik[1], ik[2]) /\ s[ik[1]] = tag } }

HeaderReferenced == RefBodies(string, "h") \cup RefBodies(where_clause, "h") # {}

\* the rating ids referenced by the expression or the filter
RatingIds ==
    { n \in RefBodies(string, "r") \cup RefBodies(where_clause, "r") : n # <<>> }

Positions(text) == { i \in 1..Len(query) : query[i].text = text }

IsJoin(f) ==
    f.text \in { " LEFT JOIN headers ON ", " LEFT JOIN pdm_classifications ON ",
                 " LEFT JOIN ratings AS %s ON " }

JoinName(f) ==
    CASE f.text = " LEFT JOIN headers ON " -> headers
      [] f.text = " LEFT JOIN pdm_classifications ON " -> pdm_classifications
      [] f.text = " LEFT JOIN ratings AS %s ON " -> f.args[1]

\* the joined sources, in the order of the query text
RECURSIVE JoinNames(_)
JoinNames(q) ==
    IF q = <<>> THEN <<>>
    ELSE IF IsJoin(q[1]) THEN <<JoinName(q[1])>> \o JoinNames(Tail(q))
    ELSE JoinNames(Tail(q))

ExpectedTables ==
    (IF HeaderReferenced \/ no_test THEN {headers} ELSE {})
    \cup { rat \o n : n \in RatingIds }
    \cup (IF classifications # <<>> THEN {pdm_classifications} ELSE {})

\* C4: the joins are exactly the referenced (or forced) sources, one join
\* each, in sorted order, and every rating join rat<n> restricts rating_id to n.
C4_MinimalJoins ==
    pc = "built" =>
        /\ JoinNames(query) = Sorted(ExpectedTables)
        /\ \A i \in Positions(" %s.rating_id = %s ") :
               \E n \in RatingIds : query[i].args = <<rat \o n, n>>

WherePos == CHOOSE i \in 1..Len(query) : query[i].text = "WHERE %s "

AndTexts == { " AND headers.source_name LIKE 'G%' ",
              " AND pdm_classifications.rank IN (%s) " }

\* C5: the query ends with HAVING composite_rating IS NOT NULL, after the
\* WHERE clause and every appended AND predicate.
C5_EndsWithHaving ==
    pc = "built" =>
        /\ query[Len(query)].text = " HAVING composite_rating IS NOT NULL"
        /\ Cardinality(Positions("WHERE %s ")) = 1
        /\ WherePos < Len(query)
        /\ \A i \in 1..Len(query) :
               query[i].text \in AndTexts => WherePos < i /\ i < Len(query)

C5_Witness ==
    /\ pc = "built"
    /\ no_test
    /\ classifications # <<>>
    /\ Cardinality({ i \in 1..Len(query) : query[i].text \in AndTexts }) = 2
    /\ query[Len(query)].text = " HAVING composite_rating IS NOT NULL"

\* C6: with no_test the headers join is there exactly once and the
\* source_name predicate follows the WHERE clause; without no_test and with no
\* header reference there is no headers join.
C6_NoTestForcesHeaders ==
    pc = "built" =>
        /\ no_test =>
             /\ Cardinality(Positions(" LEFT JOIN headers ON ")) = 1
             /\ \E i \in Positions(" AND headers.source_name LIKE 'G%' ") :
                    WherePos < i
        /\ (~no_test /\ ~HeaderReferenced) =>
             Positions(" LEFT JOIN headers ON ") = {}

C6_Witness ==
    /\ pc = "built"
    /\ no_test
    /\ ~HeaderReferenced
    /\ Cardinality(Positions(" LEFT JOIN headers ON ")) = 1

\* C10: the pdm_classifications join (once, with its three restrictions) and
\* the rank predicate with the codes as given are in the query iff
\* classifications is non-empty.
C10_ClassificationJoin ==
    pc = "built" =>
        IF Len(classifications) > 0
        THEN /\ Cardinality(Positions(" LEFT JOIN pdm_classifications ON ")) = 1
             /\ \A i \in Positions(" LEFT JOIN pdm_classifications ON ") :
                    /\ i + 3 <= Len(query)
                    /\ query[i + 1].text =
                         " pdm_candidates.pdm_cand_id = pdm_classifications.pdm_cand_id AND"
                    /\ query[i + 2].text =
                         " pdm_classifications.pdm_class_type_id = %d AND "
                    /\ query[i + 2].args = <<pdm_class_type_id>>
                    /\ query[i + 3].text = " pdm_classifications.who = 'PL' "
             /\ Cardinality(Positions(" AND pdm_classifications.rank IN (%s) ")) = 1
             /\ \A i \in Positions(" AND pdm_classifications.rank IN (%s) ") :
                    WherePos < i /\ query[i].args = <<classifications>>
        ELSE /\ Positions(" LEFT JOIN pdm_classifications ON ") = {}
             /\ Positions(" AND pdm_classifications.rank IN (%s) ") = {}

C10_Witness ==
    /\ pc = "built"
    /\ classifications = <<1, 2, 3>>
    /\ Cardinality(Positions(" LEFT JOIN pdm_classifications ON ")) = 1
    /\ \E i \in Positions(" AND pdm_classifications.rank IN (%s) ") :
           query[i].args = <<classifications>>

-----------------------------------------------------------------------------
(* produce_report *)

MaxRows == 2

\* what rating_utils.get_data can return for a composite-rating query
RatingValues == {0, 1}

ResultSeqs == UNION {[1..n -> RatingValues] : n \in 0..MaxRows}

\* Hist with the test on len(ratings) left out
Hist_AlwaysPlots(plots, ratings, edgecolor, label) ==
    Append(plots, [edgecolor |-> edgecolor,
                   label |-> Frag(label, <<Len(ratings)>>),
                   data |-> ratings])

\* if len(ratings): plt.hist(ratings, ..., edgecolor=..., label=label % len(ratings))
Hist(plots, ratings, edgecolor, label) ==
    IF Len(ratings) > 0
    THEN Append(plots, [edgecolor |-> edgecolor,
                        label |-> Frag(label, <<Len(ratings)>>),
                        data |-> ratings])
    ELSE plots

InitReport ==
    /\ pc = "report"
    /\ string = None
    /\ prepped \in { prep_composite_rating(s) : s \in {<<"c","{","s","n","r","}"," ","*"," ","r","{","1","2","}">>, <<"r","{","3","}"," ","*"," ","r","{","7","}">>} }
    /\ reprepped = None
    /\ where_clause = None
    /\ where \in { <<"1">>, prep_composite_rating(<<"h","{","n","c","h","a","n","}"," ",">"," ","0">>) }
    /\ no_test = FALSE
    /\ classifications = <<>>
    /\ query = <<>>
    /\ issued = <<>>
    /\ results = <<>>
    /\ rendered = <<>>
    /\ rating_type = None
    /\ fetched = None
    /\ formatted = None
    /\ calls = <<>>

\* one build_query / get_data / plt.hist block of produce_report
PlotStep(at, codes, edgecolor, label, then) ==
    /\ pc = at
    /\ \E ratings \in ResultSeqs :
          /\ query' = build_query(prepped, where, FALSE, codes)
          /\ issued' = Append(issued, query')
          /\ results' = Append(results, ratings)
          /\ rendered' = Hist(rendered, ratings, edgecolor, label)
    /\ pc' = then
    /\ UNCHANGED <<string, prepped, reprepped, where_clause, where, no_test,
                   classifications, formatVars, calls>>

PlotAll == PlotStep("report", <<>>, "k", "All Cands (%d)", "bad")

PlotBad == PlotStep("bad", <<4, 5>>, "r", "RFI/Noise (%d)", "psr")

PlotPsr == PlotStep("psr", <<6, 7>>, "g", "Known/Harmonic (%d)", "good")

PlotGood == PlotStep("good", <<1, 2, 3>>, "c", "Class 1/2/3 (%d)", "label")

\* title, axis labels, legend, plt.show()
Show ==
    /\ pc = "label"
    /\ pc' = "shown"
    /\ UNCHANGED <<string, prepped, reprepped, where_clause, where, no_test,
                   classifications, query, reportVars, formatVars, calls>>

NextReport == PlotAll \/ PlotBad \/ PlotPsr \/ PlotGood \/ Show

SpecReport == InitReport /\ [][NextReport]_vars

BucketCodes == << <<>>, <<4, 5>>, <<6, 7>>, <<1, 2, 3>> >>

BucketLabels == << "All Cands (%d)", "RFI/Noise (%d)", "Known/Harmonic (%d)",
                   "Class 1/2/3 (%d)" >>

\* the classification codes a query restricts to, <<>> when it has no rank
\* predicate
CodesOf(q) ==
    IF \E i \in 1..Len(q) : q[i].text = " AND pdm_classifications.rank IN (%s) "
    THEN q[CHOOSE i \in 1..Len(q) :
               q[i].text = " AND pdm_classifications.rank IN (%s) "].args[1]
    ELSE <<>>

\* the labels of the non-empty buckets among the first n, in bucket order
RECURSIVE NonEmptyLabels(_)
NonEmptyLabels(n) ==
    IF n = 0 THEN <<>>
    ELSE IF Len(results[n]) > 0
         THEN Append(NonEmptyLabels(n - 1), Frag(BucketLabels[n], <<Len(results[n])>>))
         ELSE NonEmptyLabels(n - 1)

\* C7: four queries, in the order all, [4,5], [6,7], [1,2,3], all for the same
\* expression and filter; a series is rendered iff its bucket is non-empty,
\* labelled with its own count, in bucket order.
C7_FourBuckets ==
    /\ Len(issued) <= 4
    /\ Len(results) = Len(issued)
    /\ pc \in {"label", "shown"} => Len(issued) = 4
    /\ \A i \in 1..Len(issued) :
          /\ CodesOf(issued[i]) = BucketCodes[i]
          /\ issued[i][1].args = <<prepped>>
          /\ \E j \in 1..Len(issued[i]) :
                issued[i][j].text = "WHERE %s " /\ issued[i][j].args = <<where>>
    /\ Len(rendered) = Len(NonEmptyLabels(Len(results)))
    /\ \A i \in 1..Len(rendered) :
          rendered[i].label = NonEmptyLabels(Len(results))[i]

C7_Witness ==
    /\ pc = "shown"
    /\ Len(issued) = 4
    /\ results[1] # <<>>
    /\ results[2] = <<>>
    /\ results[3] # <<>>
    /\ results[4] = <<>>
    /\ Len(rendered) = 2

-----------------------------------------------------------------------------
(* format_rating *)

MaxDesc == 4

\* width=60 of the textwrap.fill call
width == 60

Whitespace == {" ", "\n", "\t"}

\* str.split('\n')
RECURSIVE SplitLines(_, _)
SplitLines(s, cur) ==
    IF s = <<>> THEN <<cur>>
    ELSE IF s[1] = "\n" THEN <<cur>> \o SplitLines(Tail(s), <<>>)
    ELSE SplitLines(Tail(s), Append(cur, s[1]))

RECURSIVE LStrip(_)
LStrip(s) ==
    IF s # <<>> /\ s[1] \in Whitespace THEN LStrip(Tail(s)) ELSE s

RECURSIVE RStrip(_)
RStrip(s) ==
    IF s # <<>> /\ s[Len(s)] \in Whitespace
    THEN RStrip(SubSeq(s, 1, Len(s) - 1)) ELSE s

\* str.strip()
Strip(s) == RStrip(LStrip(s))

\* the last space of s at or before position n, 0 when there is none
RECURSIVE LastSpace(_, _)
LastSpace(s, n) ==
    IF n = 0 THEN 0
    ELSE IF s[n] = " " THEN n
    ELSE LastSpace(s, n - 1)

\* textwrap.fill(p, width=60, initial_indent='\t', subsequent_indent='\t') of
\* a stripped paragraph: nothing for an empty one, else tab-indented lines of
\* at most width characters broken at spaces
RECURSIVE Fill(_)
Fill(p) ==
    IF p = <<>> THEN <<>>
    ELSE IF Len(p) + 1 <= width THEN <<"\t">> \o p
    ELSE LET j == LastSpace(p, width)
         IN  IF j > 1
             THEN <<"\t">> \o RStrip(SubSeq(p, 1, j - 1)) \o <<"\n">>
                  \o Fill(LStrip(SubSeq(p, j + 1, Len(p))))
             ELSE <<"\t">> \o SubSeq(p, 1, width - 1) \o <<"\n">>
                  \o Fill(SubSeq(p, width, Len(p)))

\* '\n'.join(...)
RECURSIVE JoinLines(_)
JoinLines(ps) ==
    IF Len(ps) = 1 THEN ps[1]
    ELSE ps[1] \o <<"\n">> \o JoinLines(Tail(ps))

Wrapped(description) ==
    LET paragraphs == SplitLines(description, <<>>)
    IN  JoinLines([i \in 1..Len(paragraphs) |-> Fill(Strip(paragraphs[i]))])

FormatHead(rt) ==
    << Frag("cstring", <<"Rating", "bold">>),
       Frag(": ", <<>>),
       Frag("cstring", <<rt.name, "underline">>),
       Frag(" ", <<>>),
       Frag("v%(version)d\n\t(ID: %(rating_id)d)", <<rt.version, rt.rating_id>>) >>

\* the row after format_rating(rating_type, complete)
FormatRow(rt, complete) ==
    IF complete THEN [rt EXCEPT !.description = Wrapped(rt.description)] ELSE rt

\* the string format_rating(rating_type, complete) returns
FormatText(rt, complete) ==
    IF complete
    THEN FormatHead(rt) \o << Frag("\n%(description)s", <<Wrapped(rt.description)>>) >>
    ELSE FormatHead(rt)

Descriptions == UNION {[1..n -> {"a", " ", "\n"}] : n \in 0..MaxDesc}

RatingTypes ==
    [rating_id : {3}, name : {<<"a","b">>}, version : {0, 1},
     description : Descriptions]

InitFormat ==
    /\ pc = "fetched"
    /\ string = None
    /\ prepped = None
    /\ reprepped = None
    /\ where_clause = None
    /\ where = None
    /\ no_test = FALSE
    /\ classifications = <<>>
    /\ query = <<>>
    /\ issued = <<>>
    /\ results = <<>>
    /\ rendered = <<>>
    /\ rating_type \in RatingTypes
    /\ fetched = rating_type
    /\ formatted = None
    /\ calls = <<>>

format_rating(complete) ==
    /\ pc = "fetched"
    /\ rating_type' = FormatRow(rating_type, complete)
    /\ formatted' = FormatText(rating_type, complete)
    /\ UNCHANGED <<pc, string, prepped, reprepped, where_clause, where, no_test,
                   classifications, query, reportVars, fetched, calls>>

\* --list-ratings
ListRating == format_rating(FALSE)

\* --describe-rating
DescribeRating == format_rating(TRUE)

NextFormat == ListRating \/ DescribeRating

SpecFormat == InitFormat /\ [][NextFormat]_vars

\* C8: a fetched rating-type row is never changed by format_rating.
C8_RowNeverMutated == pc = "fetched" => rating_type = fetched

-----------------------------------------------------------------------------
(* UploadRating.rate_candidate, SharePfdRating.rate_candidate *)

MaxCalls == 3

\* candidate['cornell_pdm_cand_id']: None (NULL in the database), an integer,
\* or a value of another type
CandId(type, value) == [type |-> type, value |-> value]

NoneId == CandId("NoneType", 0)

CandIds == {NoneId, CandId("int", 7), CandId("long", 8), CandId("str", 7)}

\* type(cand_id) in [types.IntType, types.LongType]
IsInt(x) == x.type \in {"int", "long"}

Outcome(effects, result) == [effects |-> effects, result |-> result]

\* upload_pfd(cursor, conn, cand_id, pfdfn): the calls made on the Cornell
\* database and how it ends; exists is os.path.exists(pfdfn), row is what
\* cursor.fetchone() gives
upload_pfd(cand_id, exists, row) ==
    IF ~IsInt(cand_id) THEN Outcome(<<>>, "raise ValueError")
    ELSE IF ~exists THEN Outcome(<<>>, "raise ValueError")
    ELSE IF ~row THEN Outcome(<<"execute", "commit", "fetchone">>, "raise UploadError")
    ELSE Outcome(<<"execute", "commit", "fetchone">>, "return None")

\* share_pfd(pfdfn); retcode is what the rsync call returns
share_pfd(exists, retcode) ==
    IF ~exists THEN Outcome(<<>>, "raise ValueError")
    ELSE IF retcode # 0 THEN Outcome(<<"rsync">>, "raise ShareError")
    ELSE Outcome(<<"rsync">>, "return None")

\* "return 1" after a call that returned, its exception otherwise
Returns1(o) ==
    IF o.result = "return None" THEN Outcome(o.effects, "return 1") ELSE o

\* UploadRating_rate_candidate without the test on None
UploadRating_rate_candidate_Unchecked(cand_id, exists, row) ==
    Returns1(upload_pfd(cand_id, exists, row))

UploadRating_rate_candidate(cand_id, exists, row) ==
    IF cand_id = NoneId THEN Outcome(<<>>, "raise UploadError")
    ELSE Returns1(upload_pfd(cand_id, exists, row))

SharePfdRating_rate_candidate(cand_id, exists, retcode) ==
    IF cand_id = NoneId THEN Outcome(<<>>, "raise ShareError")
    ELSE Returns1(share_pfd(exists, retcode))

InitRate ==
    /\ pc = "rating"
    /\ string = None
    /\ prepped = None
    /\ reprepped = None
    /\ where_clause = None
    /\ where = None
    /\ no_test = FALSE
    /\ classifications = <<>>
    /\ query = <<>>
    /\ issued = <<>>
    /\ results = <<>>
    /\ rendered = <<>>
    /\ rating_type = None
    /\ fetched = None
    /\ formatted = None
    /\ calls = <<>>

UploadRate ==
    /\ pc = "rating"
    /\ Len(calls) < MaxCalls
    /\ \E cand_id \in CandIds, exists \in BOOLEAN, row \in BOOLEAN :
          LET o == UploadRating_rate_candidate(cand_id, exists, row)
          IN  calls' = Append(calls,
                  [rater |-> "UploadRating", cand_id |-> cand_id,
                   completed |-> exists /\ row,
                   effects |-> o.effects, result |-> o.result])
    /\ UNCHANGED <<pc, string, prepped, reprepped, where_clause, where, no_test,
                   classifications, query, reportVars, formatVars>>

ShareRate ==
    /\ pc = "rating"
    /\ Len(calls) < MaxCalls
    /\ \E cand_id \in CandIds, exists \in BOOLEAN, retcode \in {0, 1} :
          LET o == SharePfdRating_rate_candidate(cand_id, exists, retcode)
          IN  calls' = Append(calls,
                  [rater |-> "SharePfdRating", cand_id |-> cand_id,
                   completed |-> exists /\ retcode = 0,
                   effects |-> o.effects, result |-> o.result])
    /\ UNCHANGED <<pc, string, prepped, reprepped, where_clause, where, no_test,
                   classifications, query, reportVars, formatVars>>

NextRate == UploadRate \/ ShareRate

SpecRate == InitRate /\ [][NextRate]_vars

ErrorOf(rater) ==
    IF rater = "UploadRating" THEN "raise UploadError" ELSE "raise ShareError"

EffectsOf(rater) ==
    IF rater = "UploadRating" THEN <<"execute", "commit", "fetchone">>
    ELSE <<"rsync">>

\* C9: a candidate without cornell_pdm_cand_id makes rate_candidate raise its
\* own error with no side effect and no rating; 1 is returned only after the
\* upload or transfer was made and ended without error.
C9_NoneFailsFast ==
    \A i \in 1..Len(calls) :
        /\ calls[i].cand_id = NoneId =>
              /\ calls[i].result = ErrorOf(calls[i].rater)
              /\ calls[i].effects = <<>>
        /\ calls[i].result = "return 1" =>
              /\ calls[i].cand_id # NoneId
              /\ calls[i].effects = EffectsOf(calls[i].rater)
              /\ calls[i].completed

C9_Witness ==
    /\ \E i \in 1..Len(calls) :
          calls[i].rater = "UploadRating" /\ calls[i].cand_id = NoneId
    /\ \E i \in 1..Len(calls) :
          calls[i].rater = "SharePfdRating" /\ calls[i].cand_id = NoneId
    /\ \E i \in 1..Len(calls) : calls[i].result = "return 1"

====
